---- MODULE Spec2Model ----
(***************************************************************************)
(* Daily_Household_Transactions.py: a linear script that loads a CSV       *)
(* ledger, cleans it, and derives monthly/daily totals, a month x category *)
(* matrix of mean amounts and a correlation matrix.                        *)
(*                                                                         *)
(* The data frame df is a sequence of rows; a row is a record of cells     *)
(* plus idx, the pandas index label. A cell is a tagged tuple:             *)
(*   <<"nan">>          a missing value (NaN / None)                       *)
(*   <<"nat">>          a missing timestamp (NaT)                          *)
(*   <<"str", s>>       a string as read from the file                     *)
(*   <<"num", n, d>>    the number n/d in lowest terms, d >= 1             *)
(*   <<"ts", y, m, d>>  a timestamp (midnight of a calendar day)           *)
(*   <<"period", y, m>> a monthly period                                   *)
(* float64 arithmetic is modelled exactly (rationals): rounding error of   *)
(* floating point sums is not modelled.                                    *)
(***************************************************************************)
EXTENDS Integers, Sequences, FiniteSets, TLC

VARIABLES file_exists, csv, pc, df, mean_amount, stdout, exit_code,
          value_counts, monthly_data, daily_data,
          df_monthly_category_avg, correlation_matrix_avg_amount

vars == <<file_exists, csv, pc, df, mean_amount, stdout, exit_code,
          value_counts, monthly_data, daily_data,
          df_monthly_category_avg, correlation_matrix_avg_amount>>

(* Bounds: the largest number of data rows of the input file, per family   *)
(* of inputs.                                                              *)
MaxRowsAmount == 4
MaxRowsDate == 3
MaxRowsFill == 3

---------------------------------------------------------------------------
(* Cells *)

NaN == <<"nan">>
NaT == <<"nat">>
Str(s) == <<"str", s>>
Num(n, d) == <<"num", n, d>>
Ts(y, m, d) == <<"ts", y, m, d>>
Period(y, m) == <<"period", y, m>>

(* A name the script has not assigned yet. *)
Unset == [unset |-> TRUE]

isnull(c) == c[1] \in {"nan", "nat"}

RECURSIVE GCD(_, _)
GCD(a, b) == IF b = 0 THEN a ELSE GCD(b, a % b)

(* n/d as a number cell in lowest terms (n >= 0, d >= 1). *)
Reduce(n, d) == LET g == GCD(n, d) IN Num(n \div g, d \div g)

QAdd(a, b) == Reduce(a[2] * b[3] + b[2] * a[3], a[3] * b[3])

QDivInt(a, k) == Reduce(a[2], a[3] * k)

(* Series.sum(): the sum of the non-null cells (skipna), 0 when none. *)
RECURSIVE sum(_)
sum(cells) ==
    IF cells = <<>> THEN Num(0, 1)
    ELSE IF isnull(Head(cells)) THEN sum(Tail(cells))
    ELSE QAdd(Head(cells), sum(Tail(cells)))

(* Series.count(): the number of non-null cells. *)
count(cells) == Cardinality({i \in DOMAIN cells : ~isnull(cells[i])})

(* Series.mean(): the mean of the non-null cells; NaN when there is none. *)
mean(cells) ==
    IF count(cells) = 0 THEN NaN ELSE QDivInt(sum(cells), count(cells))

(* f"{x:.2f}": x in hundredths, rounded to nearest, ties to even; "nan" for NaN. *)
Format2f(c) ==
    IF isnull(c) THEN "nan"
    ELSE LET x == 100 * c[2]
             q == x \div c[3]
             r == x % c[3]
         IN IF 2 * r < c[3] THEN q
            ELSE IF 2 * r > c[3] THEN q + 1
            ELSE IF q % 2 = 0 THEN q ELSE q + 1

---------------------------------------------------------------------------
(* Conversions *)

(* The date parser on one string (day first where the month-first reading  *)
(* is impossible); a string that is no date gives NaT.                     *)
ParseDateString(s) ==
    CASE s = "01/01/2022" -> Ts(2022, 1, 1)
      [] s = "13/01/2022" -> Ts(2022, 1, 13)
      [] s = "02/02/2022" -> Ts(2022, 2, 2)
      [] OTHER -> NaT

(* pd.to_datetime(..., errors='coerce') on one cell. *)
to_datetime(c) ==
    CASE c[1] = "str" -> ParseDateString(c[2])
      [] c[1] = "ts" -> c
      [] OTHER -> NaT

(* The numeric parser on one string; a string that is no number gives NaN. *)
ParseNumberString(s) ==
    CASE s = "10" -> Num(10, 1)
      [] s = "20" -> Num(20, 1)
      [] s = "40" -> Num(40, 1)
      [] OTHER -> NaN

(* pd.to_numeric(..., errors='coerce') on one cell. *)
to_numeric(c) ==
    CASE c[1] = "str" -> ParseNumberString(c[2])
      [] c[1] = "num" -> c
      [] OTHER -> NaN

(* Series.fillna(value) on one cell. *)
fillna(c, value) == IF isnull(c) THEN value ELSE c

---------------------------------------------------------------------------
(* Frames *)

Column(frame, col) == [i \in DOMAIN frame |-> frame[i][col]]

(* The row's values over the frame's columns (the index label left out). *)
RowValues(r) == [c \in (DOMAIN r) \ {"idx"} |-> r[c]]

(* drop_duplicates(keep='last'): the variant that keeps the last of equal rows. *)
drop_duplicates_keep_last(frame) ==
    LET RECURSIVE Keep(_)
        Keep(i) ==
            IF i > Len(frame) THEN <<>>
            ELSE IF \E j \in (i + 1)..Len(frame) : RowValues(frame[j]) = RowValues(frame[i])
                 THEN Keep(i + 1)
                 ELSE <<frame[i]>> \o Keep(i + 1)
    IN Keep(1)

(* DataFrame.drop_duplicates(): drops every row equal in all columns to an *)
(* earlier row (missing values compare equal), keeping the first.          *)
drop_duplicates(frame) ==
    LET RECURSIVE Keep(_)
        Keep(i) ==
            IF i > Len(frame) THEN <<>>
            ELSE IF \E j \in 1..(i - 1) : RowValues(frame[j]) = RowValues(frame[i])
                 THEN Keep(i + 1)
                 ELSE <<frame[i]>> \o Keep(i + 1)
    IN Keep(1)

---------------------------------------------------------------------------
(* Calendar *)

(* The position of a timestamp, date or period in chronological order; a   *)
(* missing key sorts last.                                                 *)
KeyOrd(c) ==
    IF isnull(c) THEN 99999999
    ELSE c[2] * 10000 + c[3] * 100 + (IF Len(c) >= 4 THEN c[4] ELSE 0)

(* Lexicographic order of the category strings (Python str comparison). *)
CategoryOrd(c) ==
    CASE c = Str("Food") -> 1
      [] c = Str("Rent") -> 2
      [] OTHER -> 3

(* The keys in S as a sequence in ascending chronological order. *)
SortKeys(S) ==
    [i \in 1..Cardinality(S) |->
        CHOOSE x \in S : Cardinality({y \in S : KeyOrd(y) < KeyOrd(x)}) = i - 1]

(* The categories in S as a sequence in ascending order. *)
SortCategories(S) ==
    [i \in 1..Cardinality(S) |->
        CHOOSE x \in S : Cardinality({y \in S : CategoryOrd(y) < CategoryOrd(x)}) = i - 1]

DaysInMonth(y, m) ==
    IF m = 2 THEN (IF (y % 4 = 0 /\ y % 100 # 0) \/ y % 400 = 0 THEN 29 ELSE 28)
    ELSE IF m \in {4, 6, 9, 11} THEN 30 ELSE 31

(* to_period('D'): the variant with a daily period. *)
to_period_D(c) == IF c[1] = "ts" THEN <<"period", c[2], c[3], c[4]>> ELSE NaT

(* Series.dt.to_period('M') on one cell. *)
to_period_M(c) == IF c[1] = "ts" THEN Period(c[2], c[3]) ELSE NaT

(* Series.dt.day_name() on one cell (Zeller's congruence). *)
day_name(c) ==
    IF c[1] # "ts" THEN NaN
    ELSE LET m == IF c[3] < 3 THEN c[3] + 12 ELSE c[3]
             y == IF c[3] < 3 THEN c[2] - 1 ELSE c[2]
             K == y % 100
             J == y \div 100
             h == (c[4] + ((13 * (m + 1)) \div 5) + K + (K \div 4) + (J \div 4) + 5 * J) % 7
         IN Str(<<"Saturday", "Sunday", "Monday", "Tuesday", "Wednesday",
                  "Thursday", "Friday">>[h + 1])

(* Series.dt.date on one cell: the calendar day of a timestamp. *)
dt_date(c) == IF c[1] = "ts" THEN <<"date", c[2], c[3], c[4]>> ELSE NaT

(* pd.to_datetime on a date object. *)
date_to_datetime(c) == IF c[1] = "date" THEN Ts(c[2], c[3], c[4]) ELSE NaT

(* Period.astype(str) for the months of the modelled dates. *)
PeriodString(p) ==
    CASE p = Period(2022, 1) -> Str("2022-01")
      [] p = Period(2022, 2) -> Str("2022-02")
      [] OTHER -> Str("NaT")

(* pd.Grouper(freq='M'): the bin label of a timestamp is its month end. *)
MonthEnd(c) == IF c[1] = "ts" THEN Ts(c[2], c[3], DaysInMonth(c[2], c[3])) ELSE NaT

---------------------------------------------------------------------------
(* Aggregation *)

(* The rows of the frame at the positions in P, in the frame's order. *)
Take(frame, P) ==
    LET RECURSIVE Sel(_)
        Sel(i) == IF i > Len(frame) THEN <<>>
                  ELSE IF i \in P THEN <<frame[i]>> \o Sel(i + 1)
                  ELSE Sel(i + 1)
    IN Sel(1)

(* The keys of a groupby(dropna=False): the variant that keeps a null key. *)
GroupKeysWithNull(keys) == {keys[i] : i \in DOMAIN keys}

(* The keys of a groupby: the distinct non-null key values (dropna). *)
GroupKeys(keys) == {k \in {keys[i] : i \in DOMAIN keys} : ~isnull(k)}

(* frame.groupby(keys)['Amount'].sum().to_frame().reset_index(), keys a    *)
(* series aligned with the frame: one row per key, ascending, with the sum *)
(* of Amount over the key's rows.                                          *)
groupby_sum(frame, keys) ==
    LET sorted == SortKeys(GroupKeys(keys))
    IN [g \in DOMAIN sorted |->
          [key |-> sorted[g],
           Amount |-> sum(Column(Take(frame, {i \in DOMAIN frame : keys[i] = sorted[g]}),
                                 "Amount"))]]

(* The Grouper's month-end label of each row of the frame. *)
MonthEnds(frame) == [i \in DOMAIN frame |-> MonthEnd(frame[i].Date)]

(* The positions of the rows that fall in a (month, category) group: rows  *)
(* with a missing Date or a missing Category fall in none.                 *)
Grouped(frame) ==
    {i \in DOMAIN frame : ~isnull(MonthEnd(frame[i].Date)) /\ ~isnull(frame[i].Category)}

(* The categories of the groups in order of first appearance (sort=False). *)
MatrixColumnsFirstSeen(frame) ==
    LET dated == Take(frame, Grouped(frame))
        RECURSIVE Seen(_)
        Seen(i) == IF i > Len(dated) THEN <<>>
                   ELSE IF \E j \in 1..(i - 1) : dated[j].Category = dated[i].Category
                        THEN Seen(i + 1)
                        ELSE <<dated[i].Category>> \o Seen(i + 1)
    IN Seen(1)

(* The column labels of the unstacked frame: the categories of the groups, *)
(* in sorted order (groupby sorts its keys, unstack sorts the new level).  *)
MatrixColumns(frame) ==
    SortCategories(GroupKeys(Column(Take(frame, Grouped(frame)), "Category")))

(* The row labels of the unstacked frame: the month ends of the groups.    *)
MatrixIndex(frame) ==
    SortKeys(GroupKeys(MonthEnds(Take(frame, Grouped(frame)))))

(* One cell of groupby(...).mean().unstack(fill_value): the group's mean   *)
(* when the (month, category) group exists, fill_value when it does not.   *)
unstack_cell(group, fill_value) ==
    IF group = <<>> THEN fill_value ELSE mean(Column(group, "Amount"))

(* df.set_index('Date').groupby([pd.Grouper(freq='M'), 'Category'])        *)
(*   ['Amount'].mean().unstack(fill_value=0)                               *)
monthly_category_avg(frame) ==
    LET index == MatrixIndex(frame)
        columns == MatrixColumns(frame)
    IN [index |-> index,
        columns |-> columns,
        data |-> [i \in DOMAIN index |-> [j \in DOMAIN columns |->
                    unstack_cell(
                        Take(frame, {k \in DOMAIN frame :
                                        /\ MonthEnd(frame[k].Date) = index[i]
                                        /\ frame[k].Category = columns[j]}),
                        Num(0, 1))]]]

(* DataFrame.empty: some axis has length 0. *)
empty(m) == Len(m.index) = 0 \/ Len(m.columns) = 0

(* DataFrame.corr(): the square frame over the columns. Only whether a     *)
(* coefficient is defined is modelled (<<"r">>), not its value: it is NaN  *)
(* unless the two columns have at least two rows where both are non-null   *)
(* and neither column is constant over those rows.                         *)
corr(m) ==
    [columns |-> m.columns,
     data |-> [a \in DOMAIN m.columns |-> [b \in DOMAIN m.columns |->
        LET rows == {i \in DOMAIN m.index :
                        ~isnull(m.data[i][a]) /\ ~isnull(m.data[i][b])}
            Varies(j) == \E i, k \in rows : m.data[i][j] # m.data[k][j]
        IN IF Cardinality(rows) >= 2 /\ Varies(a) /\ Varies(b)
           THEN <<"r">> ELSE NaN]]]

(* Series.value_counts(): the number of rows per non-null value. *)
ValueCounts(frame, col) ==
    LET vals == {c \in {frame[i][col] : i \in DOMAIN frame} : ~isnull(c)}
    IN [v \in vals |-> Cardinality({i \in DOMAIN frame : frame[i][col] = v})]

---------------------------------------------------------------------------
(* The input file *)

(* frame[col] = series: the column is replaced, or added when new. *)
AssignColumn(frame, col, series) ==
    [i \in DOMAIN frame |-> (col :> series[i]) @@ frame[i]]

(* pd.read_csv: one row per data line, labelled 0, 1, ...; an empty field  *)
(* is NaN; a column whose non-empty fields are all numbers is numeric,     *)
(* any other column keeps its strings.                                     *)
read_csv(file) ==
    LET AllNumeric == \A i \in DOMAIN file :
                         isnull(file[i].Amount) \/ ~isnull(to_numeric(file[i].Amount))
        labelled == [i \in DOMAIN file |-> file[i] @@ ("idx" :> i - 1)]
    IN IF AllNumeric
       THEN AssignColumn(labelled, "Amount",
                         [i \in DOMAIN file |-> to_numeric(file[i].Amount)])
       ELSE labelled

Line(Date, Category, Subcategory, Note, Amount) ==
    [Date |-> Date, Mode |-> Str("Cash"), Category |-> Category,
     Subcategory |-> Subcategory, Note |-> Note, Amount |-> Amount,
     IncomeExpense |-> Str("Expense")]

(* Input lines that differ in Amount and Category. *)
LinesAmount ==
    {Line(Str("01/01/2022"), c, Str("Milk"), Str("weekly"), a) :
        c \in {Str("Food"), Str("Rent")},
        a \in {Str("10"), Str("20"), Str("40"), Str("abc")}}

(* Input lines that differ in Date, Category and Amount. *)
LinesDate ==
    {Line(d, c, Str("Milk"), Str("weekly"), a) :
        d \in {Str("01/01/2022"), Str("13/01/2022"), Str("02/02/2022"),
               Str("not-a-date")},
        c \in {Str("Food"), Str("Rent")},
        a \in {Str("10"), Str("40")}}

(* Input lines that differ in the fields cleaning fills. *)
LinesFill ==
    {Line(Str("01/01/2022"), Str("Food"), s, n, a) :
        s \in {NaN, Str("Unknown"), Str("Milk")},
        n \in {NaN, Str("No Note")},
        a \in {NaN, Str("10")}}

Files(Lines, MaxRows) == UNION {[1..n -> Lines] : n \in 1..MaxRows}

---------------------------------------------------------------------------
(* The script *)

(* The variant of the script that removes duplicates before it cleans. *)
PipelineDedupFirst ==
    <<"load", "drop_duplicates", "to_datetime", "fill_subcategory", "fill_note",
      "to_numeric", "impute_amount", "eda", "derive_calendar",
      "monthly_data", "daily_data", "monthly_category_avg", "correlation",
      "complete">>

(* The statements of the script in the order they run. *)
Pipeline ==
    <<"load", "to_datetime", "fill_subcategory", "fill_note", "to_numeric",
      "impute_amount", "drop_duplicates", "eda", "derive_calendar",
      "monthly_data", "daily_data", "monthly_category_avg", "correlation",
      "complete">>

At(step) == pc \in DOMAIN Pipeline /\ Pipeline[pc] = step

(* The step has run. *)
Done(step) == \E i \in DOMAIN Pipeline : i < pc /\ Pipeline[i] = step

(* The process has ended: pc is past the last statement, or 0 after exit(). *)
Exited == pc \notin DOMAIN Pipeline

(* exit() with no argument raises SystemExit(None): the status is 0. *)
ExitStatusOfExit == 0

(* The status of a script that runs off its last line. *)
ExitStatusNormal == 0

InitWith(Lines, MaxRows) ==
    /\ file_exists \in BOOLEAN
    /\ csv \in (IF file_exists THEN Files(Lines, MaxRows) ELSE {<<>>})
    /\ pc = 1
    /\ df = Unset
    /\ mean_amount = Unset
    /\ stdout = <<>>
    /\ exit_code = Unset
    /\ value_counts = Unset
    /\ monthly_data = Unset
    /\ daily_data = Unset
    /\ df_monthly_category_avg = Unset
    /\ correlation_matrix_avg_amount = Unset

InitAmount == InitWith(LinesAmount, MaxRowsAmount)
InitDate == InitWith(LinesDate, MaxRowsDate)
InitFill == InitWith(LinesFill, MaxRowsFill)

LoadData ==
    /\ At("load")
    /\ file_exists
    /\ df' = read_csv(csv)
    /\ stdout' = stdout \o <<<<"banner">>, <<"step1">>, <<"loaded">>, <<"head_info">>>>
    /\ pc' = pc + 1
    /\ UNCHANGED <<file_exists, csv, mean_amount, exit_code, value_counts,
                   monthly_data, daily_data, df_monthly_category_avg,
                   correlation_matrix_avg_amount>>

FileNotFound ==
    /\ At("load")
    /\ ~file_exists
    /\ stdout' = stdout \o <<<<"banner">>, <<"step1">>, <<"not_found">>>>
    /\ exit_code' = ExitStatusOfExit
    /\ pc' = 0
    /\ UNCHANGED <<file_exists, csv, df, mean_amount, value_counts,
                   monthly_data, daily_data, df_monthly_category_avg,
                   correlation_matrix_avg_amount>>

ConvertDate ==
    /\ At("to_datetime")
    /\ df' = AssignColumn(df, "Date", [i \in DOMAIN df |-> to_datetime(df[i].Date)])
    /\ stdout' = stdout \o <<<<"step2">>, <<"date_converted">>>>
    /\ pc' = pc + 1
    /\ UNCHANGED <<file_exists, csv, mean_amount, exit_code, value_counts,
                   monthly_data, daily_data, df_monthly_category_avg,
                   correlation_matrix_avg_amount>>

FillSubcategory ==
    /\ At("fill_subcategory")
    /\ df' = AssignColumn(df, "Subcategory",
                          [i \in DOMAIN df |-> fillna(df[i].Subcategory, Str("Unknown"))])
    /\ pc' = pc + 1
    /\ UNCHANGED <<file_exists, csv, mean_amount, stdout, exit_code, value_counts,
                   monthly_data, daily_data, df_monthly_category_avg,
                   correlation_matrix_avg_amount>>

FillNote ==
    /\ At("fill_note")
    /\ df' = AssignColumn(df, "Note",
                          [i \in DOMAIN df |-> fillna(df[i].Note, Str("No Note"))])
    /\ stdout' = stdout \o <<<<"missing_after_fill">>>>
    /\ pc' = pc + 1
    /\ UNCHANGED <<file_exists, csv, mean_amount, exit_code, value_counts,
                   monthly_data, daily_data, df_monthly_category_avg,
                   correlation_matrix_avg_amount>>

CoerceAmount ==
    /\ At("to_numeric")
    /\ df' = AssignColumn(df, "Amount", [i \in DOMAIN df |-> to_numeric(df[i].Amount)])
    /\ pc' = pc + 1
    /\ UNCHANGED <<file_exists, csv, mean_amount, stdout, exit_code, value_counts,
                   monthly_data, daily_data, df_monthly_category_avg,
                   correlation_matrix_avg_amount>>

ImputeAmount ==
    /\ At("impute_amount")
    /\ IF \E i \in DOMAIN df : isnull(df[i].Amount)
       THEN LET m == mean(Column(df, "Amount"))
            IN /\ mean_amount' = m
               /\ df' = AssignColumn(df, "Amount",
                                        [i \in DOMAIN df |-> fillna(df[i].Amount, m)])
               /\ stdout' = stdout \o <<<<"filled_mean", Format2f(m)>>>>
       ELSE UNCHANGED <<mean_amount, df, stdout>>
    /\ pc' = pc + 1
    /\ UNCHANGED <<file_exists, csv, exit_code, value_counts,
                   monthly_data, daily_data, df_monthly_category_avg,
                   correlation_matrix_avg_amount>>

DropDuplicates ==
    /\ At("drop_duplicates")
    /\ LET initial_rows == Len(df)
           deduped == drop_duplicates(df)
           rows_after_dedup == Len(deduped)
       IN /\ df' = deduped
          /\ stdout' = stdout \o <<<<"removed", initial_rows - rows_after_dedup>>,
                                   <<"dtypes_head">>>>
    /\ pc' = pc + 1
    /\ UNCHANGED <<file_exists, csv, mean_amount, exit_code, value_counts,
                   monthly_data, daily_data, df_monthly_category_avg,
                   correlation_matrix_avg_amount>>

(* Step 3: the counts behind the count plots (their display order, the     *)
(* summary statistics and the charts themselves are not modelled).         *)
ExploreData ==
    /\ At("eda")
    /\ value_counts' = [Mode |-> ValueCounts(df, "Mode"),
                        Category |-> ValueCounts(df, "Category"),
                        IncomeExpense |-> ValueCounts(df, "IncomeExpense")]
    /\ stdout' = stdout \o <<<<"step3">>, <<"describe">>>>
    /\ pc' = pc + 1
    /\ UNCHANGED <<file_exists, csv, df, mean_amount, exit_code,
                   monthly_data, daily_data, df_monthly_category_avg,
                   correlation_matrix_avg_amount>>

DeriveCalendar ==
    /\ At("derive_calendar")
    /\ df' = AssignColumn(
                AssignColumn(df, "YearMonth", [i \in DOMAIN df |-> to_period_M(df[i].Date)]),
                "DayOfWeek", [i \in DOMAIN df |-> day_name(df[i].Date)])
    /\ stdout' = stdout \o <<<<"step4">>>>
    /\ pc' = pc + 1
    /\ UNCHANGED <<file_exists, csv, mean_amount, exit_code, value_counts,
                   monthly_data, daily_data, df_monthly_category_avg,
                   correlation_matrix_avg_amount>>

MonthlyTotals ==
    /\ At("monthly_data")
    /\ monthly_data' =
          LET g == groupby_sum(df, Column(df, "YearMonth"))
          IN [i \in DOMAIN g |-> [YearMonth |-> PeriodString(g[i].key),
                                  Amount |-> g[i].Amount]]
    /\ pc' = pc + 1
    /\ UNCHANGED <<file_exists, csv, df, mean_amount, stdout, exit_code, value_counts,
                   daily_data, df_monthly_category_avg,
                   correlation_matrix_avg_amount>>

DailyTotals ==
    /\ At("daily_data")
    /\ daily_data' =
          LET g == groupby_sum(df, [i \in DOMAIN df |-> dt_date(df[i].Date)])
          IN [i \in DOMAIN g |-> [Date |-> date_to_datetime(g[i].key),
                                  Amount |-> g[i].Amount]]
    /\ pc' = pc + 1
    /\ UNCHANGED <<file_exists, csv, df, mean_amount, stdout, exit_code, value_counts,
                   monthly_data, df_monthly_category_avg,
                   correlation_matrix_avg_amount>>

MonthlyCategoryAvg ==
    /\ At("monthly_category_avg")
    /\ df_monthly_category_avg' = monthly_category_avg(df)
    /\ stdout' = stdout \o <<<<"step5">>>>
    /\ pc' = pc + 1
    /\ UNCHANGED <<file_exists, csv, df, mean_amount, exit_code, value_counts,
                   monthly_data, daily_data, correlation_matrix_avg_amount>>

(* The variant of the guard that asks for shape[1] > 0. *)
CorrelationOneColumnEnough ==
    /\ At("correlation")
    /\ IF ~empty(df_monthly_category_avg) /\ Len(df_monthly_category_avg.columns) > 0
       THEN LET c == corr(df_monthly_category_avg)
            IN /\ correlation_matrix_avg_amount' = c
               /\ stdout' = stdout \o
                     (IF Len(c.columns) > 1 THEN <<<<"corr_matrix">>>>
                      ELSE <<<<"not_enough">>>>)
       ELSE /\ stdout' = stdout \o <<<<"no_pivot">>>>
            /\ UNCHANGED correlation_matrix_avg_amount
    /\ pc' = pc + 1
    /\ UNCHANGED <<file_exists, csv, df, mean_amount, exit_code, value_counts,
                   monthly_data, daily_data, df_monthly_category_avg>>

Correlation ==
    /\ At("correlation")
    /\ IF ~empty(df_monthly_category_avg) /\ Len(df_monthly_category_avg.columns) > 1
       THEN LET c == corr(df_monthly_category_avg)
            IN /\ correlation_matrix_avg_amount' = c
               /\ stdout' = stdout \o
                     (IF Len(c.columns) > 1 THEN <<<<"corr_matrix">>>>
                      ELSE <<<<"not_enough">>>>)
       ELSE /\ stdout' = stdout \o <<<<"no_pivot">>>>
            /\ UNCHANGED correlation_matrix_avg_amount
    /\ pc' = pc + 1
    /\ UNCHANGED <<file_exists, csv, df, mean_amount, exit_code, value_counts,
                   monthly_data, daily_data, df_monthly_category_avg>>

Complete ==
    /\ At("complete")
    /\ stdout' = stdout \o <<<<"complete">>>>
    /\ exit_code' = ExitStatusNormal
    /\ pc' = pc + 1
    /\ UNCHANGED <<file_exists, csv, df, mean_amount, value_counts,
                   monthly_data, daily_data, df_monthly_category_avg,
                   correlation_matrix_avg_amount>>

Next ==
    \/ LoadData
    \/ FileNotFound
    \/ ConvertDate
    \/ FillSubcategory
    \/ FillNote
    \/ CoerceAmount
    \/ ImputeAmount
    \/ DropDuplicates
    \/ ExploreData
    \/ DeriveCalendar
    \/ MonthlyTotals
    \/ DailyTotals
    \/ MonthlyCategoryAvg
    \/ Correlation
    \/ Complete

SpecAmount == InitAmount /\ [][Next]_vars
SpecDate == InitDate /\ [][Next]_vars
SpecFill == InitFill /\ [][Next]_vars

---------------------------------------------------------------------------
(* Properties *)

(* Steps 1 and 2 have run. *)
CleaningDone ==
    /\ Done("to_datetime") /\ Done("fill_subcategory") /\ Done("fill_note")
    /\ Done("to_numeric") /\ Done("impute_amount") /\ Done("drop_duplicates")

Last(q) == q[Len(q)]

Printed(msg) == \E i \in DOMAIN stdout : stdout[i][1] = msg

(* The Amount field of input line i as a number, or NaN. *)
Coerced(i) == to_numeric(csv[i].Amount)

(* The input lines whose Amount is a number. *)
ValidLines == {i \in DOMAIN csv : ~isnull(Coerced(i))}

(* The sum of the numeric Amount fields of the input lines in S. *)
RECURSIVE InputTotal(_)
InputTotal(S) ==
    IF S = {} THEN 0
    ELSE LET x == CHOOSE y \in S : TRUE IN Coerced(x)[2] + InputTotal(S \ {x})

(* The number cell c equals p/q. *)
IsRatio(c, p, q) == c[1] = "num" /\ c[2] * q = p * c[3]

(* The Amount cells of the rows of the frame at the positions in P. *)
AmountsAt(frame, P) == Column(Take(frame, P), "Amount")

HasDate(r) == r.Date[1] = "ts"

(* C1: when the input file is missing the run prints a diagnostic, runs no *)
(* cleaning, aggregation or reporting step and ends with a non-zero exit   *)
(* status; when it is present the run goes through every stage and ends    *)
(* with status 0.                                                          *)
C1_MissingFileExitsNonZero ==
    Exited =>
        IF ~file_exists
        THEN /\ Printed("not_found")
             /\ \A i \in DOMAIN stdout : stdout[i][1] \in {"banner", "step1", "not_found"}
             /\ df = Unset
             /\ df_monthly_category_avg = Unset
             /\ exit_code # 0
        ELSE /\ \A i \in DOMAIN Pipeline : Done(Pipeline[i])
             /\ Last(stdout) = <<"complete">>
             /\ exit_code = 0

(* C1, the part that holds: as C1 but for the status of the failed run,    *)
(* which is 0 as well.                                                     *)
C1_MissingFileStopsEarly ==
    Exited =>
        IF ~file_exists
        THEN /\ Printed("not_found")
             /\ \A i \in DOMAIN stdout : stdout[i][1] \in {"banner", "step1", "not_found"}
             /\ df = Unset
             /\ df_monthly_category_avg = Unset
             /\ exit_code = 0
        ELSE /\ \A i \in DOMAIN Pipeline : Done(Pipeline[i])
             /\ Last(stdout) = <<"complete">>
             /\ exit_code = 0

(* C2: once Amount has been coerced and mean-filled, every row of the      *)
(* table has a non-null numeric Amount, whatever the raw table was.        *)
C2_AmountNonNull ==
    (Done("to_numeric") /\ Done("impute_amount")) =>
        \A k \in DOMAIN df : df[k].Amount[1] = "num"

(* C2, the part that holds: the same when at least one input Amount is a   *)
(* number.                                                                 *)
C2_AmountNonNullGivenAValidAmount ==
    (Done("to_numeric") /\ Done("impute_amount") /\ ValidLines # {}) =>
        \A k \in DOMAIN df : df[k].Amount[1] = "num"

(* C3: every Amount that is null after coercion is replaced by the mean of *)
(* all non-null Amounts of the whole table before deduplication (one value *)
(* for the table, duplicates counted), and every valid Amount is left      *)
(* unchanged.                                                              *)
C3_NullsFilledWithGlobalMean ==
    (Done("to_numeric") /\ Done("impute_amount")) =>
        \A k \in DOMAIN df :
            LET i == df[k].idx + 1
            IN IF isnull(Coerced(i))
               THEN IsRatio(df[k].Amount, InputTotal(ValidLines), Cardinality(ValidLines))
               ELSE df[k].Amount = Coerced(i)

(* C3, the part that holds: the same when at least one input Amount is a   *)
(* number, with the mean printed to two decimals.                          *)
C3_NullsFilledGivenAValidAmount ==
    (Done("to_numeric") /\ Done("impute_amount") /\ ValidLines # {}) =>
        /\ \A k \in DOMAIN df :
              LET i == df[k].idx + 1
              IN IF isnull(Coerced(i))
                 THEN IsRatio(df[k].Amount, InputTotal(ValidLines), Cardinality(ValidLines))
                 ELSE df[k].Amount = Coerced(i)
        /\ (ValidLines # DOMAIN csv) =>
              /\ IsRatio(mean_amount, InputTotal(ValidLines), Cardinality(ValidLines))
              /\ \E m \in DOMAIN stdout : stdout[m] = <<"filled_mean", Format2f(mean_amount)>>

(* C3's example: amounts 10, 20, missing, 40 give 70/3, printed 23.33, and *)
(* four rows after cleaning.                                               *)
C3_Example ==
    /\ CleaningDone
    /\ Len(csv) = 4
    /\ \A i \in 1..4 : csv[i].Category = Str("Food")
    /\ csv[1].Amount = Str("10") /\ csv[2].Amount = Str("20")
    /\ csv[3].Amount = Str("abc") /\ csv[4].Amount = Str("40")
    /\ Len(df) = 4
    /\ df[3].Amount = Num(70, 3)
    /\ \E m \in DOMAIN stdout : stdout[m] = <<"filled_mean", 2333>>

(* C4: deduplication removes exactly the rows equal in all fields to an     *)
(* earlier row and keeps the first occurrences in order; afterwards no two *)
(* rows are equal in all fields, the printed count is the number of rows   *)
(* removed, and deduplicating again removes nothing.                       *)
C4_DedupKeepsFirstAndIsIdempotent ==
    [][At("drop_duplicates") =>
        LET dup == {i \in DOMAIN df :
                       \E j \in 1..(i - 1) : RowValues(df[j]) = RowValues(df[i])}
        IN /\ \A a, b \in DOMAIN df' : a # b => RowValues(df'[a]) # RowValues(df'[b])
           /\ {df'[k].idx : k \in DOMAIN df'} = {df[i].idx : i \in (DOMAIN df) \ dup}
           /\ \A k \in DOMAIN df' : \E i \in (DOMAIN df) \ dup : df'[k] = df[i]
           /\ \A a, b \in DOMAIN df' : a < b => df'[a].idx < df'[b].idx
           /\ Len(df') = Len(df) - Cardinality(dup)
           /\ stdout'[Len(stdout) + 1] = <<"removed", Cardinality(dup)>>
           /\ drop_duplicates(df') = df'
     ]_vars

(* C4's case: deduplication has removed a row and kept at least two. *)
C4_Witness ==
    /\ CleaningDone
    /\ Len(df) >= 2
    /\ \E m \in DOMAIN stdout : stdout[m][1] = "removed" /\ stdout[m][2] >= 1

(* The distinct calendar months of the rows that have a Date. *)
MonthsOf(frame) ==
    {<<frame[k].Date[2], frame[k].Date[3]>> : k \in {i \in DOMAIN frame : HasDate(frame[i])}}

(* The distinct calendar days of the rows that have a Date. *)
DaysOf(frame) ==
    {<<frame[k].Date[2], frame[k].Date[3], frame[k].Date[4]>> :
        k \in {i \in DOMAIN frame : HasDate(frame[i])}}

(* C5: the monthly total view has exactly one row per calendar month that  *)
(* occurs among the cleaned rows with a Date, and its Amounts add up to    *)
(* the sum of Amount over the cleaned rows that have a Date.               *)
C5_MonthlyTotals ==
    Done("monthly_data") =>
        /\ Len(monthly_data) = Cardinality(MonthsOf(df))
        /\ {monthly_data[g].YearMonth : g \in DOMAIN monthly_data}
              = {PeriodString(Period(ym[1], ym[2])) : ym \in MonthsOf(df)}
        /\ sum(Column(monthly_data, "Amount")) = sum(AmountsAt(df, {k \in DOMAIN df : HasDate(df[k])}))

(* C5's case: two months, one of them with two rows, and a row without a   *)
(* Date.                                                                   *)
C5_Witness ==
    /\ Done("monthly_data")
    /\ Len(monthly_data) = 2
    /\ Len(df) = 3
    /\ \E k \in DOMAIN df : ~HasDate(df[k])

(* C6: every cell of the monthly category matrix is a number: the mean     *)
(* Amount of the cleaned rows of its month and category when there is such *)
(* a row, and 0 when there is none.                                        *)
C6_MatrixCellsDefined ==
    Done("monthly_category_avg") =>
        LET m == df_monthly_category_avg
        IN \A i \in DOMAIN m.index : \A j \in DOMAIN m.columns :
              LET cells == AmountsAt(df, {k \in DOMAIN df :
                               /\ HasDate(df[k])
                               /\ df[k].Date[2] = m.index[i][2]
                               /\ df[k].Date[3] = m.index[i][3]
                               /\ df[k].Category = m.columns[j]})
                  total == sum(cells)
              IN IF Len(cells) > 0
                 THEN IsRatio(m.data[i][j], total[2], total[3] * Len(cells))
                 ELSE m.data[i][j] = Num(0, 1)

(* C6, the part that holds: the same when at least one input Amount is a   *)
(* number.                                                                 *)
C6_MatrixCellsDefinedGivenAValidAmount ==
    (Done("monthly_category_avg") /\ ValidLines # {}) =>
        LET m == df_monthly_category_avg
        IN \A i \in DOMAIN m.index : \A j \in DOMAIN m.columns :
              LET cells == AmountsAt(df, {k \in DOMAIN df :
                               /\ HasDate(df[k])
                               /\ df[k].Date[2] = m.index[i][2]
                               /\ df[k].Date[3] = m.index[i][3]
                               /\ df[k].Category = m.columns[j]})
                  total == sum(cells)
              IN IF Len(cells) > 0
                 THEN IsRatio(m.data[i][j], total[2], total[3] * Len(cells))
                 ELSE m.data[i][j] = Num(0, 1)

(* C6's case: a matrix with a zero-filled cell beside a cell that is the    *)
(* mean of two rows.                                                       *)
C6_FilledCell ==
    /\ Done("monthly_category_avg")
    /\ \E i \in DOMAIN df_monthly_category_avg.index :
          /\ df_monthly_category_avg.data[i][1] = Num(0, 1)
          /\ df_monthly_category_avg.data[i][2] = Num(25, 1)

(* The input lines whose Date does not parse. *)
UndatedLines == {i \in DOMAIN csv : isnull(to_datetime(csv[i].Date))}

(* Neither total view has a row for a missing Date, and each of their rows *)
(* is the sum over the rows of its month or day alone.                     *)
TotalsLeaveOutUndated ==
    /\ Len(monthly_data) = Cardinality(MonthsOf(df))
    /\ \A g \in DOMAIN monthly_data :
          \E ym \in MonthsOf(df) :
              /\ monthly_data[g].YearMonth = PeriodString(Period(ym[1], ym[2]))
              /\ monthly_data[g].Amount =
                    sum(AmountsAt(df, {k \in DOMAIN df :
                          /\ HasDate(df[k])
                          /\ df[k].Date[2] = ym[1] /\ df[k].Date[3] = ym[2]}))
    /\ Len(daily_data) = Cardinality(DaysOf(df))
    /\ \A g \in DOMAIN daily_data :
          /\ daily_data[g].Date[1] = "ts"
          /\ daily_data[g].Amount =
                sum(AmountsAt(df, {k \in DOMAIN df : df[k].Date = daily_data[g].Date}))

DatedCategories == {df[k].Category : k \in {i \in DOMAIN df : HasDate(df[i])}}

C9_ColumnsInFirstSeenOrder ==
    Done("monthly_category_avg") =>
        df_monthly_category_avg.columns = MatrixColumnsFirstSeen(df)

(* C9 as amended: the category columns of the monthly category matrix are  *)
(* the categories that have a dated row, each once, in ascending sorted    *)
(* order of their names, whatever the order of the rows.                   *)
C9_ColumnsInSortedOrder ==
    Done("monthly_category_avg") =>
        LET cols == df_monthly_category_avg.columns
        IN /\ {cols[j] : j \in DOMAIN cols} = DatedCategories
           /\ \A a, b \in DOMAIN cols : a < b => CategoryOrd(cols[a]) < CategoryOrd(cols[b])

(* C9's case: "Rent" appears before "Food" in the cleaned table and both   *)
(* are columns.                                                            *)
C9_Witness ==
    /\ Done("monthly_category_avg")
    /\ Len(df_monthly_category_avg.columns) = 2
    /\ HasDate(df[1])
    /\ df[1].Category = Str("Rent")

(* Input lines i and j are equal but for Subcategory, missing in i and     *)
(* "Unknown" in j.                                                         *)
DifferBySentinel(i, j) ==
    /\ csv[i].Subcategory = NaN
    /\ csv[j].Subcategory = Str("Unknown")
    /\ [csv[i] EXCEPT !.Subcategory = Str("Unknown")] = csv[j]

(* C10: deduplication runs after parsing, filling and imputation: of two   *)
(* input lines equal but for a missing Subcategory against "Unknown", the  *)
(* cleaned table holds exactly one row, with Subcategory "Unknown".        *)
C10_SentinelRowsCollapse ==
    CleaningDone =>
        \A i, j \in DOMAIN csv :
            DifferBySentinel(i, j) =>
                /\ Cardinality({k \in DOMAIN df : df[k].idx \in {i - 1, j - 1}}) <= 1
                /\ Cardinality({k \in DOMAIN df :
                      /\ df[k].Subcategory = Str("Unknown")
                      /\ df[k].Note = fillna(csv[j].Note, Str("No Note"))
                      /\ df[k].Category = csv[j].Category
                      /\ df[k].Mode = csv[j].Mode
                      /\ df[k].IncomeExpense = csv[j].IncomeExpense
                      /\ df[k].Date = to_datetime(csv[j].Date)
                      /\ IF isnull(Coerced(j)) THEN df[k].Amount = mean_amount
                         ELSE df[k].Amount = Coerced(j)}) = 1
                /\ \A k \in DOMAIN df : df[k].Subcategory # NaN

(* C10's case: the table has such a pair, whose row with the missing       *)
(* Subcategory comes first, and a third row.                               *)
C10_Witness ==
    /\ CleaningDone
    /\ Len(csv) = 3
    /\ Len(df) = 2
    /\ DifferBySentinel(1, 2)
    /\ df[1].idx = 0
    /\ df[1].Subcategory = Str("Unknown")

====
